---------------------------- MODULE Spec2Model ----------------------------
(***************************************************************************)
(* Model of the CSV schema-reconciling append store of                     *)
(* screen_capture_extractor.py: sync_header_and_append,                    *)
(* sync_header_and_append_many, append_row_to_csv,                         *)
(* remove_last_row_from_csv, the save worker that feeds them               *)
(* (parse_json_lenient, the normalisation of _run_ollama_extraction, the   *)
(* flattening of App._run_save_worker.worker) and the table loader         *)
(* App._load_data_table.                                                   *)
(*                                                                         *)
(* The table file is a sequence of physical lines, each line the sequence  *)
(* of its fields as csv.reader returns them (a blank line is <<>>).  The   *)
(* csv writer and reader are inverse to each other on the fields of a      *)
(* line (a single empty field is written as "" in quotes, so it is not a   *)
(* blank line); what is not the identity is modelled: csv.DictReader takes *)
(* the first line as the header, skips blank lines, pads short lines with  *)
(* None and collects the surplus of long lines under the key None;         *)
(* csv.DictWriter writes None as the empty field and raises on a key that  *)
(* is no field name.                                                       *)
(*                                                                         *)
(* Every function that touches the file is cut at its file-system calls:   *)
(* os.path.isfile, the read of the whole file, open(.., "w"/"a") and each  *)
(* writerow, so that the file a reader would find between two calls is a   *)
(* state of the model.                                                     *)
(***************************************************************************)
EXTENDS Integers, Sequences, FiniteSets, TLC

VARIABLES
    file,        \* the table file: [exists, lines]
    table,       \* the Treeview of the GUI: [columns, items]
    pc,          \* per thread: the place in the code
    op,          \* per thread: the call in progress (or the last one)
    pre,         \* per thread: the file as it was when the call started
    fieldnames,  \* per thread: the fieldnames of its csv.DictWriter
    pending,     \* per thread: the lines its writer has still to write
    raises,      \* per thread: the writer raises after the pending lines
    exists_,     \* per thread: the local `exists` of append_row_to_csv
    mode,        \* per thread: the mode the file was opened with for writing
    ret,         \* per thread: the value remove_last_row_from_csv returned
    err,         \* per thread: the exception the call ended with
    nops,        \* the number of calls made
    captured_image,  \* App.captured_image: None or the image of a grab
    last_bbox,   \* App.last_bbox: None or the region of the last capture
    warned,      \* the title of the warning the last call showed, if any
    view,        \* what the last run of view_captures.py loaded
    hist,        \* history: rows appended, rows removed, a row without keys seen
    pos,         \* per thread: the offset, in lines, of its handle opened with "w"
    target,      \* per thread: the lines of the table it computed from what it read
    last         \* the last writer that closed the file, and its target

vars == <<file, table, pc, op, pre, fieldnames, pending, raises, exists_,
          mode, ret, err, nops, captured_image, last_bbox, warned, view, hist,
          pos, target, last>>

\* what only the writes of a call touch
wstate == <<pos, target, last>>

\* the state of the GUI and of the view tool that the store never touches
uistate == <<captured_image, last_bbox, view>>

\* Bound of the model: the number of calls of one run.
MaxOps == 3

\* Bound of the model: the number of calls of a run of writers side by side.
MaxConcurrentOps == 2

\* The threads that write the file: the save worker threads and the UI thread.
Procs == {"t1", "t2"}

\* The single writer of the design (spec section 2).
Writer == "t1"

----------------------------------------------------------------------------
(* Python dicts: a sequence of [k, v] in insertion order, keys unique.     *)

NoneVal == "<None>"     \* Python's None as a value (DictReader's restval)
NoneKey == "<NoneKey>"  \* Python's None as a key (DictReader's restkey)
RestVal == "<rest>"     \* the list DictReader stores under restkey

Min(a, b) == IF a < b THEN a ELSE b

InSeq(s, x) == \E i \in 1..Len(s) : s[i] = x

SeqSet(s) == {s[i] : i \in 1..Len(s)}

Keys(d) == [i \in 1..Len(d) |-> d[i].k]

Has(d, k) == \E i \in 1..Len(d) : d[i].k = k

\* d.get(k, default)
Get(d, k, default) ==
    IF Has(d, k) THEN d[CHOOSE i \in 1..Len(d) : d[i].k = k].v ELSE default

\* d[k] = v: an existing key keeps its place, a new key goes last
DictSet(d, k, v) ==
    IF Has(d, k)
    THEN [i \in 1..Len(d) |-> IF d[i].k = k THEN [k |-> k, v |-> v] ELSE d[i]]
    ELSE Append(d, [k |-> k, v |-> v])

\* The orders in which Python may iterate over a set of strings: str hashes
\* are salted per process, so every order of the elements is possible.
Perms(S) ==
    {s \in [1..Cardinality(S) -> S] :
        \A i, j \in 1..Cardinality(S) : i # j => s[i] # s[j]}

----------------------------------------------------------------------------
(* The csv module on the lines of the file.                                *)

NoFile == [exists |-> FALSE, lines |-> <<>>]

\* csv.DictReader.fieldnames, then `or []`
FieldNames(lines) == IF lines = <<>> THEN <<>> ELSE lines[1]

NonBlank(line) == line # <<>>

\* csv.DictReader.__next__ for one line
DictRow(fields, line) ==
    LET lf == Len(fields)
        lr == Len(line)
        base == [i \in 1..Min(lf, lr) |-> [k |-> fields[i], v |-> line[i]]]
    IN  IF lf < lr
        THEN Append(base, [k |-> NoneKey, v |-> RestVal])
        ELSE base \o [i \in 1..(lf - lr) |-> [k |-> fields[lr + i], v |-> NoneVal]]

\* list(reader): the dicts of the data lines, blank lines skipped
ReadRows(lines) ==
    LET data == IF lines = <<>> THEN <<>> ELSE SelectSeq(Tail(lines), NonBlank)
    IN  [i \in 1..Len(data) |-> DictRow(FieldNames(lines), data[i])]

\* the csv writer writes None as the empty field
CsvField(v) == IF v = NoneVal THEN "" ELSE v

\* A slip in lines 88, 96-97, 111, 128-130: the row's own values are written,
\* not its values under the field names.
Render_RowValuesOnly(fields, d) == [i \in 1..Len(d) |-> CsvField(d[i].v)]

\* {k: r.get(k, "") for k in fields}, as writerow writes it
Render(fields, d) == [i \in 1..Len(fields) |-> CsvField(Get(d, fields[i], ""))]

\* DictWriter._dict_to_list raises ValueError on a key that is no field name
WriterRejects(fields, d) == \E i \in 1..Len(d) : ~InSeq(fields, d[i].k)

----------------------------------------------------------------------------
(* JSON values, as json.loads returns them.                                *)

JStr(s) == [t |-> "str", s |-> s, items |-> <<>>]
JNum(s) == [t |-> "num", s |-> s, items |-> <<>>]
JNull == [t |-> "null", s |-> "", items |-> <<>>]
JMap(pairs) == [t |-> "map", s |-> "", items |-> pairs]
JList(xs) == [t |-> "list", s |-> "", items |-> xs]

RECURSIVE Dumps(_), DumpsItems(_, _, _)
\* json.dumps(v, ensure_ascii=False)
Dumps(v) ==
    CASE v.t = "str" -> "\"" \o v.s \o "\""
      [] v.t = "num" -> v.s
      [] v.t = "null" -> "null"
      [] v.t = "map" -> "{" \o DumpsItems(v.items, 1, TRUE) \o "}"
      [] v.t = "list" -> "[" \o DumpsItems(v.items, 1, FALSE) \o "]"
DumpsItems(xs, i, isMap) ==
    IF i > Len(xs) THEN ""
    ELSE (IF i > 1 THEN ", " ELSE "")
         \o (IF isMap THEN "\"" \o xs[i].k \o "\": " \o Dumps(xs[i].v)
                      ELSE Dumps(xs[i]))
         \o DumpsItems(xs, i + 1, isMap)

RECURSIVE PyRepr(_), PyReprItems(_, _, _)
\* repr(v)
PyRepr(v) ==
    CASE v.t = "str" -> "'" \o v.s \o "'"
      [] v.t = "num" -> v.s
      [] v.t = "null" -> "None"
      [] v.t = "map" -> "{" \o PyReprItems(v.items, 1, TRUE) \o "}"
      [] v.t = "list" -> "[" \o PyReprItems(v.items, 1, FALSE) \o "]"
PyReprItems(xs, i, isMap) ==
    IF i > Len(xs) THEN ""
    ELSE (IF i > 1 THEN ", " ELSE "")
         \o (IF isMap THEN "'" \o xs[i].k \o "': " \o PyRepr(xs[i].v)
                      ELSE PyRepr(xs[i]))
         \o PyReprItems(xs, i + 1, isMap)

\* "" if v is None else str(v)
StrOrEmpty(v) ==
    CASE v.t = "null" -> ""
      [] v.t \in {"str", "num"} -> v.s
      [] OTHER -> PyRepr(v)

\* bool(v), as `x or default` tests it
Truthy(v) ==
    CASE v.t = "null" -> FALSE
      [] v.t = "str" -> v.s # ""
      [] v.t = "num" -> v.s # "0"
      [] OTHER -> v.items # <<>>

(* The text of the model's answer: prose around it or not, and a body that *)
(* is a JSON value (val), an unbalanced fragment with braces ("broken") or *)
(* free of braces ("none").  A body with prose around it is an object or   *)
(* has no braces.                                                          *)
Text(prose, body, val) == [prose |-> prose, body |-> body, val |-> val]

\* json.loads(text) of line 136 succeeds
LoadsWhole(text) == ~text.prose /\ text.body = "json"

\* text.find("{") and text.rfind("}") delimit a substring that json.loads accepts
LoadsBraces(text) == text.body = "json" /\ text.val.t = "map"

parse_json_lenient(text) ==
    IF LoadsWhole(text) THEN text.val
    ELSE IF LoadsBraces(text) THEN text.val
    ELSE JMap(<<>>)

\* one value of the normalisation, lines 454-457
NormalizeValue(v) ==
    IF v.t \in {"map", "list"} THEN JStr(Dumps(v)) ELSE JStr(StrOrEmpty(v))

\* _run_ollama_extraction from the text on, lines 449-458
run_ollama_extraction(text) ==
    LET data == parse_json_lenient(text)
    IN  IF data.t = "map"
        THEN JMap([i \in 1..Len(data.items) |->
                     [k |-> data.items[i].k, v |-> NormalizeValue(data.items[i].v)]])
        ELSE JMap(<<>>)

RECURSIVE SetAll(_, _, _, _)
\* for k, v in pairs.items(): flat[prefix + k] = "" if v is None else str(v)
SetAll(flat, pairs, prefix, i) ==
    IF i > Len(pairs) THEN flat
    ELSE SetAll(DictSet(flat, prefix \o pairs[i].k, StrOrEmpty(pairs[i].v)),
                pairs, prefix, i + 1)

\* the body of the loop over txs, lines 395-401
FlatOf(summary, tx) == SetAll(SetAll(<<>>, summary.items, "summary_", 1), tx.items, "", 1)

\* the dict handed to csv.DictWriter as it is: the writer writes str(v), "" for None
RowOf(pairs) == [i \in 1..Len(pairs) |-> [k |-> pairs[i].k, v |-> StrOrEmpty(pairs[i].v)]]

Call(exc, many, rows) == [exc |-> exc, many |-> many, rows |-> rows]

(* The save worker from the extraction result to the call of the store,    *)
(* lines 390-411: the exception it ends with, or the rows it appends and   *)
(* with which of the two functions.  .items() on a value that is no dict   *)
(* raises AttributeError, iterating over a number raises TypeError; a      *)
(* string iterates over its characters and a dict over its keys, which are *)
(* strings.                                                                *)
worker(result) ==
    IF result.t # "map" THEN Call("TypeError", FALSE, <<>>)
    ELSE IF Has(result.items, "transactions") /\ Has(result.items, "summary")
    THEN LET s == Get(result.items, "summary", JNull)
             x == Get(result.items, "transactions", JNull)
             summary == IF Truthy(s) THEN s ELSE JMap(<<>>)
             txs == IF Truthy(x) THEN x ELSE JList(<<>>)
         IN  CASE txs.t = "num" -> Call("TypeError", FALSE, <<>>)
               [] txs.t \in {"str", "map"} -> Call("AttributeError", FALSE, <<>>)
               [] txs.items # <<>> ->
                    IF summary.t # "map" \/ \E i \in 1..Len(txs.items) : txs.items[i].t # "map"
                    THEN Call("AttributeError", FALSE, <<>>)
                    ELSE Call("none", TRUE,
                              [i \in 1..Len(txs.items) |-> FlatOf(summary, txs.items[i])])
               [] OTHER ->
                    IF summary.t # "map" THEN Call("AttributeError", FALSE, <<>>)
                    ELSE Call("none", FALSE, <<SetAll(<<>>, summary.items, "summary_", 1)>>)
    ELSE Call("none", FALSE, <<RowOf(result.items)>>)

----------------------------------------------------------------------------
(* The inputs of the calls.                                                *)

KV(k, v) == [k |-> k, v |-> v]

RowEmpty == <<>>
RowAB == <<KV("a", "1"), KV("b", "2")>>
RowAC == <<KV("a", "3"), KV("c", "4")>>

RowInputs == {RowEmpty, RowAB, RowAC}

BatchInputs == {<<>>, <<RowAB, RowAC>>, <<RowAC, RowEmpty>>, <<RowEmpty, RowEmpty>>}

TextGarbage == Text(TRUE, "none", JNull)
TextBroken == Text(FALSE, "broken", JNull)
TextList == Text(FALSE, "json", JList(<<JStr("1")>>))
TextFlat == Text(TRUE, "json", JMap(<<KV("a", JStr("1")), KV("n", JNum("10")), KV("b", JNull)>>))
TextStructured ==
    Text(FALSE, "json",
         JMap(<<KV("summary", JMap(<<KV("a", JStr("1"))>>)),
                KV("transactions", JList(<<JMap(<<KV("b", JStr("2"))>>),
                                           JMap(<<KV("b", JStr("3"))>>)>>))>>))
TextNoTransactions ==
    Text(FALSE, "json",
         JMap(<<KV("summary", JMap(<<KV("a", JStr("1"))>>)),
                KV("transactions", JList(<<>>))>>))

TextInputs == {TextGarbage, TextBroken, TextList, TextFlat, TextStructured, TextNoTransactions}

NoText == Text(FALSE, "none", JNull)

----------------------------------------------------------------------------
(* The pure parts of the store.                                            *)

\* the set {k for r in rows for k in r.keys()}
KeySet(rows) == UNION {SeqSet(Keys(rows[i])) : i \in 1..Len(rows)}

RECURSIVE UnionFields(_, _, _)
\* lines 80-83: for k in row.keys(): if k not in new_fields: new_fields.append(k)
UnionFields(new_fields, keys, i) ==
    IF i > Len(keys) THEN new_fields
    ELSE UnionFields(IF InSeq(new_fields, keys[i]) THEN new_fields
                                                   ELSE Append(new_fields, keys[i]),
                     keys, i + 1)

\* A slip in lines 80-83: the new header is built from the row's keys alone.
SA_NewFields_RowKeysOnly(old_fields, row) == Keys(row)

\* new_fields of sync_header_and_append
SA_NewFields(old_fields, row) == UnionFields(old_fields, Keys(row), 1)

\* A slip in lines 95-96 and 127-128: the rows read are not written back.
RewriteLines_DropExisting(fields, existing, rows) ==
    <<fields>> \o [i \in 1..Len(rows) |-> Render(fields, rows[i])]

\* the lines of a rewrite: the header, the rows read, the incoming rows
RewriteLines(fields, existing, rows) ==
    <<fields>> \o [i \in 1..Len(existing) |-> Render(fields, existing[i])]
               \o [i \in 1..Len(rows) |-> Render(fields, rows[i])]

\* A slip in line 56: rows[:-2] instead of rows[:-1].
RL_Keep_DropTwo(rows) == SubSeq(rows, 1, Len(rows) - 2)

\* A slip in line 56: rows[1:] instead of rows[:-1].
RL_Keep_DropFirst(rows) == Tail(rows)

\* rows[:-1] of remove_last_row_from_csv
RL_Keep(rows) == SubSeq(rows, 1, Len(rows) - 1)

\* the rows writer.writerows writes before it raises, if it does
Accepted(fields, rows) ==
    IF \E i \in 1..Len(rows) : WriterRejects(fields, rows[i])
    THEN SubSeq(rows, 1, (CHOOSE i \in 1..Len(rows) :
                             /\ WriterRejects(fields, rows[i])
                             /\ \A j \in 1..(i - 1) : ~WriterRejects(fields, rows[j])) - 1)
    ELSE rows

\* open(csv_path, "a"): creates the file when there is none
OpenAppend(f) == IF f.exists THEN f ELSE [exists |-> TRUE, lines |-> <<>>]

\* open(csv_path, "w"): creates the file or truncates it
OpenWrite(f) == [exists |-> TRUE, lines |-> <<>>]

\* remove_last_row_from_csv run alone on the file f: what it returns
RemoveLastReturns(f) == f.exists /\ ReadRows(f.lines) # <<>>

\* remove_last_row_from_csv run alone on the file f: the file it leaves
RemoveLastFile(f) ==
    IF RemoveLastReturns(f)
    THEN [exists |-> TRUE,
          lines |-> RewriteLines(FieldNames(f.lines), <<>>, RL_Keep(ReadRows(f.lines)))]
    ELSE f

EmptyTable == [columns |-> <<>>, items |-> <<>>]

\* App._load_data_table: the rows of the view are deleted first; the columns
\* are set only when the file is there
LoadDataTable(tbl, f) ==
    IF ~f.exists THEN [columns |-> tbl.columns, items |-> <<>>]
    ELSE LET headers == FieldNames(f.lines)
             rows == ReadRows(f.lines)
         IN  [columns |-> headers,
              items |-> [i \in 1..Len(rows) |->
                           [j \in 1..Len(headers) |-> Get(rows[i], headers[j], "")]]]

\* load(path) of the design: the loader on a view that shows nothing yet
Load(f) == LoadDataTable(EmptyTable, f)

----------------------------------------------------------------------------
(* The state after App.__init__: no table file, a view without columns     *)
(* (line 271; the first _load_data_table of line 293 finds no file).       *)

NoImage == "None"  \* captured_image = None (line 222)
NoBbox == "None"   \* last_bbox = None (line 224)

\* view_captures.py has not run
NoView == [exc |-> "none", columns |-> <<>>, items |-> <<>>]

NoOp == [name |-> "none", src |-> "none", rows |-> <<>>, text |-> NoText]

Init ==
    /\ file = NoFile
    /\ table = EmptyTable
    /\ pc = [p \in Procs |-> "idle"]
    /\ op = [p \in Procs |-> NoOp]
    /\ pre = [p \in Procs |-> NoFile]
    /\ fieldnames = [p \in Procs |-> <<>>]
    /\ pending = [p \in Procs |-> <<>>]
    /\ raises = [p \in Procs |-> FALSE]
    /\ exists_ = [p \in Procs |-> FALSE]
    /\ mode = [p \in Procs |-> "none"]
    /\ ret = [p \in Procs |-> FALSE]
    /\ err = [p \in Procs |-> "none"]
    /\ nops = 0
    /\ captured_image = NoImage
    /\ last_bbox = NoBbox
    /\ warned = "none"
    /\ view = NoView
    /\ hist = [appended |-> 0, removed |-> 0, keyless |-> FALSE]
    /\ pos = [p \in Procs |-> 0]
    /\ target = [p \in Procs |-> <<>>]
    /\ last = [by |-> "none", lines |-> <<>>]

\* A thread enters a call: its locals are fresh, the file as it is now is
\* remembered for the properties.
Enter(p, o, label, exc) ==
    /\ pc[p] = "idle"
    /\ nops < MaxOps
    /\ nops' = nops + 1
    /\ op' = [op EXCEPT ![p] = o]
    /\ pre' = [pre EXCEPT ![p] = file]
    /\ pc' = [pc EXCEPT ![p] = label]
    /\ fieldnames' = [fieldnames EXCEPT ![p] = <<>>]
    /\ pending' = [pending EXCEPT ![p] = <<>>]
    /\ raises' = [raises EXCEPT ![p] = FALSE]
    /\ exists_' = [exists_ EXCEPT ![p] = FALSE]
    /\ mode' = [mode EXCEPT ![p] = "none"]
    /\ ret' = [ret EXCEPT ![p] = FALSE]
    /\ err' = [err EXCEPT ![p] = exc]
    /\ warned' = "none"
    /\ hist' = [hist EXCEPT !.keyless = @ \/ \E i \in 1..Len(o.rows) : o.rows[i] = <<>>]
    /\ pos' = [pos EXCEPT ![p] = 0]
    /\ target' = [target EXCEPT ![p] = <<>>]
    /\ UNCHANGED <<file, table, last>>

\* a call of sync_header_and_append(csv_path, row)
sync_header_and_append(p, row) ==
    /\ Enter(p, [name |-> "append", src |-> "api", rows |-> <<row>>, text |-> NoText],
             "sa_isfile", "none")
    /\ UNCHANGED uistate

\* a call of sync_header_and_append_many(csv_path, rows)
sync_header_and_append_many(p, rows) ==
    /\ Enter(p, [name |-> "append_many", src |-> "api", rows |-> rows, text |-> NoText],
             "sm_isfile", "none")
    /\ UNCHANGED uistate

\* a call of remove_last_row_from_csv(csv_path)
remove_last_row_from_csv(p) ==
    /\ Enter(p, [name |-> "remove_last", src |-> "api", rows |-> <<>>, text |-> NoText],
             "rl_isfile", "none")
    /\ UNCHANGED uistate

\* The save worker, lines 384-416, up to its call of the store: the model's
\* answer is parsed, normalised and flattened; an exception is caught at line
\* 414 and shown, and nothing is saved.
run_save_worker(p, text) ==
    LET c == worker(run_ollama_extraction(text))
    IN  IF c.exc # "none"
        THEN Enter(p, [name |-> "save_failed", src |-> "worker", rows |-> <<>>, text |-> text],
                   "idle", c.exc)
        ELSE IF c.many
        THEN Enter(p, [name |-> "append_many", src |-> "worker", rows |-> c.rows, text |-> text],
                   "sm_isfile", "none")
        ELSE Enter(p, [name |-> "append", src |-> "worker", rows |-> c.rows, text |-> text],
                   "sa_isfile", "none")

\* App._remove_last, lines 470-475: without a file it only tells the user
remove_last(p) ==
    /\ Enter(p, [name |-> "remove_last", src |-> "button", rows |-> <<>>, text |-> NoText],
             IF file.exists THEN "rl_isfile" ELSE "idle", "none")
    /\ UNCHANGED uistate

----------------------------------------------------------------------------
(* The steps of the calls.                                                 *)

Goto(p, label) == pc' = [pc EXCEPT ![p] = label]

Row(p) == op[p].rows[1]

\* what a writer is given before it opens the file; base is what the call
\* read and means to keep in place (opened with "a"), lines what it writes
Plan(p, fields, base, lines, raise) ==
    /\ fieldnames' = [fieldnames EXCEPT ![p] = fields]
    /\ pending' = [pending EXCEPT ![p] = lines]
    /\ raises' = [raises EXCEPT ![p] = raise]
    /\ target' = [target EXCEPT ![p] = base \o lines]

\* an open for writing
Open(p, f, m, label) ==
    /\ file' = f
    /\ mode' = [mode EXCEPT ![p] = m]
    /\ Goto(p, label)
    /\ UNCHANGED <<uistate, warned, hist, wstate>>
    /\ UNCHANGED <<table, op, pre, fieldnames, pending, raises, exists_, ret, err, nops>>

\* line 70
sa_isfile(p) ==
    /\ pc[p] = "sa_isfile"
    /\ Goto(p, IF file.exists THEN "sa_read" ELSE "ar_exists")
    /\ UNCHANGED <<uistate, warned, hist, wstate>>
    /\ UNCHANGED <<file, table, op, pre, fieldnames, pending, raises, exists_, mode,
                   ret, err, nops>>

\* append_row_to_csv, lines 36-38
append_row_to_csv_exists(p) ==
    /\ pc[p] = "ar_exists"
    /\ exists_' = [exists_ EXCEPT ![p] = file.exists]
    /\ fieldnames' = [fieldnames EXCEPT ![p] = Keys(Row(p))]
    /\ Goto(p, "ar_open")
    /\ target' = [target EXCEPT ![p] = file.lines]
    /\ UNCHANGED <<uistate, warned, hist, pos, last>>
    /\ UNCHANGED <<file, table, op, pre, pending, raises, mode, ret, err, nops>>

\* append_row_to_csv, lines 39-43: the header is written if the file was not
\* there at line 37
append_row_to_csv_open(p) ==
    /\ pc[p] = "ar_open"
    /\ file' = OpenAppend(file)
    /\ mode' = [mode EXCEPT ![p] = "a"]
    /\ pending' = [pending EXCEPT ![p] =
                     (IF exists_[p] THEN <<>> ELSE <<fieldnames[p]>>)
                     \o <<Render(fieldnames[p], Row(p))>>]
    /\ Goto(p, "write")
    /\ target' = [target EXCEPT ![p] = @ \o pending'[p]]
    /\ UNCHANGED <<uistate, warned, hist, pos, last>>
    /\ UNCHANGED <<table, op, pre, fieldnames, raises, exists_, ret, err, nops>>

\* lines 74-85 (and what lines 88, 94-97 will write)
sa_read(p) ==
    /\ pc[p] = "sa_read"
    /\ LET old_fields == FieldNames(file.lines)
           rows == ReadRows(file.lines)
           new_fields == SA_NewFields(old_fields, Row(p))
       IN  IF new_fields = old_fields
           THEN /\ Plan(p, new_fields, file.lines, <<Render(new_fields, Row(p))>>, FALSE)
                /\ Goto(p, "sa_open_a")
           ELSE /\ Plan(p, new_fields, <<>>, RewriteLines(new_fields, rows, <<Row(p)>>), FALSE)
                /\ Goto(p, "sa_open_w")
    /\ UNCHANGED <<uistate, warned, hist, pos, last>>
    /\ UNCHANGED <<file, table, op, pre, exists_, mode, ret, err, nops>>

\* line 86
sa_open_append(p) ==
    /\ pc[p] = "sa_open_a"
    /\ Open(p, OpenAppend(file), "a", "write")

\* line 92
sa_open_rewrite(p) ==
    /\ pc[p] = "sa_open_w"
    /\ Open(p, OpenWrite(file), "w", "write")

\* lines 103-106 (and what lines 109-111 will write)
sm_isfile(p) ==
    /\ pc[p] = "sm_isfile"
    /\ IF file.exists
       THEN /\ Goto(p, "sm_read")
            /\ UNCHANGED <<fieldnames, pending, raises, target>>
       ELSE IF op[p].rows = <<>>
       THEN /\ Goto(p, "return")
            /\ UNCHANGED <<fieldnames, pending, raises, target>>
       ELSE \E fields \in Perms(KeySet(op[p].rows)) :
                /\ Plan(p, fields, <<>>, RewriteLines(fields, <<>>, op[p].rows), FALSE)
                /\ Goto(p, "sm_open_new")
    /\ UNCHANGED <<uistate, warned, hist, pos, last>>
    /\ UNCHANGED <<file, table, op, pre, exists_, mode, ret, err, nops>>

\* line 107
sm_open_create(p) ==
    /\ pc[p] = "sm_open_new"
    /\ Open(p, OpenWrite(file), "w", "write")

\* lines 114-122 (and what lines 126-130 will write)
sm_read(p) ==
    /\ pc[p] = "sm_read"
    /\ LET old_fields == FieldNames(file.lines)
           existing_rows == ReadRows(file.lines)
       IN  \E added \in Perms(KeySet(op[p].rows) \ SeqSet(old_fields)) :
               Plan(p, old_fields \o added, <<>>,
                    RewriteLines(old_fields \o added, existing_rows, op[p].rows), FALSE)
    /\ Goto(p, "sm_open_w")
    /\ UNCHANGED <<uistate, warned, hist, pos, last>>
    /\ UNCHANGED <<file, table, op, pre, exists_, mode, ret, err, nops>>

\* line 124
sm_open_rewrite(p) ==
    /\ pc[p] = "sm_open_w"
    /\ Open(p, OpenWrite(file), "w", "write")

\* lines 48-49
rl_isfile(p) ==
    /\ pc[p] = "rl_isfile"
    /\ Goto(p, IF file.exists THEN "rl_read" ELSE "return")
    /\ UNCHANGED <<uistate, warned, hist, wstate>>
    /\ UNCHANGED <<file, table, op, pre, fieldnames, pending, raises, exists_, mode,
                   ret, err, nops>>

\* lines 50-56 (and what lines 59-60 will write)
rl_read(p) ==
    /\ pc[p] = "rl_read"
    /\ LET rows == ReadRows(file.lines)
           fields == FieldNames(file.lines)
           kept == RL_Keep(rows)
       IN  IF rows = <<>>
           THEN /\ Goto(p, "return")
                /\ UNCHANGED <<fieldnames, pending, raises, target>>
           ELSE /\ Plan(p, fields, <<>>, RewriteLines(fields, <<>>, Accepted(fields, kept)),
                        Accepted(fields, kept) # kept)
                /\ Goto(p, "rl_open_w")
    /\ UNCHANGED <<uistate, warned, hist, pos, last>>
    /\ UNCHANGED <<file, table, op, pre, exists_, mode, ret, err, nops>>

\* line 57
rl_open_rewrite(p) ==
    /\ pc[p] = "rl_open_w"
    /\ Open(p, OpenWrite(file), "w", "write")

\* what a file holds where nothing was written: NUL bytes
Hole == <<"NUL">>

\* a write of one line at an offset of n lines: the line there is written
\* over, or the file grows, with a hole if it ends before the offset
WriteAt(lines, n, line) ==
    IF n < Len(lines) THEN [lines EXCEPT ![n + 1] = line]
    ELSE lines \o [i \in 1..(n - Len(lines)) |-> Hole] \o <<line>>

\* One writeheader or writerow reaches the file: at the end of the file
\* through a handle opened with "a", at the handle's own offset through one
\* opened with "w".  Offsets are counted in lines.
writerow(p) ==
    /\ pc[p] = "write"
    /\ pending[p] # <<>>
    /\ file' = [file EXCEPT !.lines = IF mode[p] = "a"
                                      THEN Append(@, Head(pending[p]))
                                      ELSE WriteAt(@, pos[p], Head(pending[p]))]
    /\ pos' = [pos EXCEPT ![p] = @ + 1]
    /\ pending' = [pending EXCEPT ![p] = Tail(@)]
    /\ UNCHANGED <<uistate, warned, hist, target, last>>
    /\ UNCHANGED <<table, pc, op, pre, fieldnames, raises, exists_, mode, ret, err, nops>>

\* the end of the with block: the file is closed; remove_last_row_from_csv
\* returns True (line 61); a ValueError of the writer leaves the call
close_file(p) ==
    /\ pc[p] = "write"
    /\ pending[p] = <<>>
    /\ IF raises[p]
       THEN /\ err' = [err EXCEPT ![p] = "ValueError"]
            /\ Goto(p, "idle")
            /\ UNCHANGED ret
       ELSE /\ ret' = [ret EXCEPT ![p] = (op[p].name = "remove_last")]
            /\ Goto(p, "return")
            /\ UNCHANGED err
    /\ last' = [by |-> p, lines |-> target[p]]
    /\ UNCHANGED <<uistate, warned, hist, pos, target>>
    /\ UNCHANGED <<file, table, op, pre, fieldnames, pending, raises, exists_, mode, nops>>

\* back in the caller: the worker (line 413) and App._remove_last after a
\* removal (line 477) load the view again
return_to_caller(p) ==
    /\ pc[p] = "return"
    /\ Goto(p, "idle")
    /\ table' = IF op[p].src = "worker" \/ (op[p].src = "button" /\ ret[p])
                THEN LoadDataTable(table, file)
                ELSE table
    /\ hist' = IF op[p].name = "remove_last"
               THEN [hist EXCEPT !.removed = @ + (IF ret[p] THEN 1 ELSE 0)]
               ELSE [hist EXCEPT !.appended = @ + Len(op[p].rows)]
    /\ UNCHANGED <<uistate, warned, wstate>>
    /\ UNCHANGED <<file, op, pre, fieldnames, pending, raises, exists_, mode, ret, err, nops>>

OpenLabels == {"ar_open", "sa_open_a", "sa_open_w", "sm_open_new", "sm_open_w", "rl_open_w"}

\* An open or a write fails (permission denied, disk full): OSError leaves the
\* call; what was written so far stays in the file.
io_error(p) ==
    /\ pc[p] \in OpenLabels \cup {"write"}
    /\ err' = [err EXCEPT ![p] = "OSError"]
    /\ Goto(p, "idle")
    /\ UNCHANGED <<uistate, warned, hist, wstate>>
    /\ UNCHANGED <<file, table, op, pre, fieldnames, pending, raises, exists_, mode, ret, nops>>

Step(p) ==
    \/ sa_isfile(p)
    \/ append_row_to_csv_exists(p)
    \/ append_row_to_csv_open(p)
    \/ sa_read(p)
    \/ sa_open_append(p)
    \/ sa_open_rewrite(p)
    \/ sm_isfile(p)
    \/ sm_open_create(p)
    \/ sm_read(p)
    \/ sm_open_rewrite(p)
    \/ rl_isfile(p)
    \/ rl_read(p)
    \/ rl_open_rewrite(p)
    \/ writerow(p)
    \/ close_file(p)
    \/ return_to_caller(p)

Calls(p) ==
    \/ \E row \in RowInputs : sync_header_and_append(p, row)
    \/ \E rows \in BatchInputs : sync_header_and_append_many(p, rows)
    \/ remove_last_row_from_csv(p)
    \/ \E text \in TextInputs : run_save_worker(p, text) /\ UNCHANGED uistate
    \/ remove_last(p)

\* One writer at a time, no I/O failure.
Next == Calls(Writer) \/ Step(Writer)

Spec == Init /\ [][Next]_vars

\* One writer at a time; an open or a write may fail.
NextFault == Next \/ io_error(Writer)

SpecFault == Init /\ [][NextFault]_vars

-----------------------------------------------------------------------------
(* The application as its user drives it: the handlers of the window and   *)
(* the save worker they start, and view_captures.py run beside it.         *)

\* what ImageGrab.grab(bbox) may return; GrabError is its exception
Images == {"imgA", "imgB"}

GrabError == "error"

\* selector.result_bbox; NoBbox when the selection is cancelled
Bboxes == {"boxA", "boxB"}

\* prompt_text.get("1.0", tk.END).strip()
Prompts == {"", "extract"}

\* A handler returns without starting a worker: msg is what it showed or
\* logged, image and bbox are what it leaves in the App.
Handled(p, msg, image, bbox) ==
    /\ pc[p] = "idle"
    /\ nops < MaxOps
    /\ nops' = nops + 1
    /\ warned' = msg
    /\ captured_image' = image
    /\ last_bbox' = bbox
    /\ UNCHANGED <<file, table, pc, op, pre, fieldnames, pending, raises, exists_,
                   mode, ret, err, view, hist, wstate>>

\* App._capture_region, lines 303-323
capture_region(p, bbox, grab) ==
    IF bbox = NoBbox THEN Handled(p, "Capture canceled", captured_image, last_bbox)
    ELSE IF grab = GrabError THEN Handled(p, "Capture Error", captured_image, last_bbox)
    ELSE Handled(p, "none", grab, bbox)

\* App._extract_and_save, lines 325-333
extract_and_save(p, prompt, text) ==
    IF captured_image = NoImage THEN Handled(p, "No Image", captured_image, last_bbox)
    ELSE IF prompt = "" THEN Handled(p, "No Prompt", captured_image, last_bbox)
    ELSE run_save_worker(p, text) /\ UNCHANGED uistate

\* App._capture_and_save, lines 335-358: the grabbed image and the region are
\* stored (lines 347-348) before the prompt is looked at (lines 351-354)
capture_and_save(p, bbox, grab, prompt, text) ==
    IF bbox = NoBbox THEN Handled(p, "Capture canceled", captured_image, last_bbox)
    ELSE IF grab = GrabError THEN Handled(p, "Capture Error", captured_image, last_bbox)
    ELSE IF prompt = "" THEN Handled(p, "No Prompt", grab, bbox)
    ELSE /\ run_save_worker(p, text)
         /\ captured_image' = grab
         /\ last_bbox' = bbox
         /\ UNCHANGED view

\* App._quick_save_last_region, lines 360-377: the grabbed image is stored
\* (line 367) before the prompt is looked at (lines 370-373)
quick_save_last_region(p, grab, prompt, text) ==
    IF last_bbox = NoBbox THEN Handled(p, "No Region", captured_image, last_bbox)
    ELSE IF grab = GrabError THEN Handled(p, "Quick Save Error", captured_image, last_bbox)
    ELSE IF prompt = "" THEN Handled(p, "No Prompt", grab, last_bbox)
    ELSE /\ run_save_worker(p, text)
         /\ captured_image' = grab
         /\ UNCHANGED <<last_bbox, view>>

\* App._clear, lines 460-463
clear(p) == Handled(p, "none", NoImage, last_bbox)

\* view_captures.load_dataframe, lines 62-66: a missing file is an exception;
\* pandas.read_csv skips blank lines, takes the first line left as the
\* columns and raises EmptyDataError when there is none.  The items are the
\* fields of the data lines as stored.
load_dataframe(f) ==
    IF ~f.exists THEN [exc |-> "FileNotFoundError", columns |-> <<>>, items |-> <<>>]
    ELSE LET lines == SelectSeq(f.lines, NonBlank)
         IN  IF lines = <<>>
             THEN [exc |-> "EmptyDataError", columns |-> <<>>, items |-> <<>>]
             ELSE [exc |-> "none", columns |-> Head(lines), items |-> Tail(lines)]

\* view_captures.main, lines 115-117, run at any moment beside the App
view_captures_main ==
    /\ nops < MaxOps
    /\ nops' = nops + 1
    /\ view' = load_dataframe(file)
    /\ UNCHANGED <<file, table, pc, op, pre, fieldnames, pending, raises, exists_,
                   mode, ret, err, captured_image, last_bbox, warned, hist, wstate>>

Handlers(p) ==
    \/ \E bbox \in Bboxes \cup {NoBbox}, grab \in Images \cup {GrabError} :
           capture_region(p, bbox, grab)
    \/ \E prompt \in Prompts, text \in TextInputs : extract_and_save(p, prompt, text)
    \/ \E bbox \in Bboxes \cup {NoBbox}, grab \in Images \cup {GrabError},
          prompt \in Prompts, text \in TextInputs :
           capture_and_save(p, bbox, grab, prompt, text)
    \/ \E grab \in Images \cup {GrabError}, prompt \in Prompts, text \in TextInputs :
           quick_save_last_region(p, grab, prompt, text)
    \/ clear(p)

\* One writer at a time, the handlers of the window, and the view tool.
NextApp == Next \/ Handlers(Writer) \/ view_captures_main

SpecApp == Init /\ [][NextApp]_vars

-----------------------------------------------------------------------------
(* Writers side by side: save workers (threads started at line 418 while   *)
(* another is running) and the remove-last button of the UI thread, their  *)
(* steps interleaved; nothing in the code makes one wait for another.      *)
(* Every row saved has keys.                                               *)

ConcurrentCalls(p) ==
    /\ nops < MaxConcurrentOps
    /\ \/ \E row \in {RowAB, RowAC} : sync_header_and_append(p, row)
       \/ sync_header_and_append_many(p, <<RowAB, RowAC>>)
       \/ run_save_worker(p, TextFlat) /\ UNCHANGED uistate
       \/ remove_last(p)

NextConcurrent == \E p \in Procs : ConcurrentCalls(p) \/ Step(p)

SpecConcurrent == Init /\ [][NextConcurrent]_vars

----------------------------------------------------------------------------
(* Properties.  A call has completed when its thread is back at "idle"     *)
(* without an exception; pre is the file as the call found it.             *)

Completed(p) == pc[p] = "idle" /\ err[p] = "none"

AppendCompleted(p) == Completed(p) /\ op[p].name \in {"append", "append_many"}

RemoveCompleted(p) == Completed(p) /\ op[p].name = "remove_last"

IsPrefix(s, t) == Len(s) <= Len(t) /\ SubSeq(t, 1, Len(s)) = s

Blanks(n) == [i \in 1..n |-> ""]

\* the values of a row under the columns of a table
Against(columns, row) == [j \in 1..Len(columns) |-> Get(row, columns[j], "")]

(* C1. Header monotonicity: after any completed append (single-row or      *)
(* multi-row) the header holds every column the header held before the     *)
(* call.                                                                   *)
C1_HeaderMonotonic ==
    \A p \in Procs :
        AppendCompleted(p) =>
            SeqSet(Load(pre[p]).columns) \subseteq SeqSet(Load(file).columns)

\* a multi-row append has completed on a table that had columns, and added some
C1_Witness ==
    /\ AppendCompleted(Writer)
    /\ op[Writer].name = "append_many"
    /\ Load(pre[Writer]).columns # <<>>
    /\ Len(Load(file).columns) > Len(Load(pre[Writer]).columns)

(* C3. Undo correctness: a completed removeLast on a table with at least   *)
(* one row returned true and left the same header and the same rows but    *)
(* the last; on no file or a table without rows it returned false and left *)
(* the file (or its absence) as it was.                                    *)
C3_UndoCorrect ==
    \A p \in Procs :
        RemoveCompleted(p) =>
            LET before == Load(pre[p])
                after == Load(file)
            IN  IF pre[p].exists /\ before.items # <<>>
                THEN /\ ret[p]
                     /\ after.columns = before.columns
                     /\ after.items = SubSeq(before.items, 1, Len(before.items) - 1)
                ELSE /\ ~ret[p]
                     /\ file = pre[p]

\* a removal has completed that took the only row with a value in some column,
\* and rows remain
C3_Witness ==
    /\ RemoveCompleted(Writer)
    /\ ret[Writer]
    /\ Load(file).items # <<>>
    /\ LET before == Load(pre[Writer])
       IN  \E j \in 1..Len(before.columns) :
               /\ before.items[Len(before.items)][j] # ""
               /\ \A i \in 1..(Len(before.items) - 1) : before.items[i][j] = ""

(* C8. Existing rows are preserved by append: after a completed append to  *)
(* an existing table the old header is a prefix of the new one, every old  *)
(* row is at its old position with its old values followed by the empty    *)
(* string in every added column, and every row after the old ones is an    *)
(* incoming row.                                                           *)
C8_ExistingRowsPreserved ==
    \A p \in Procs :
        AppendCompleted(p) /\ pre[p].exists =>
            LET before == Load(pre[p])
                after == Load(file)
                added == Len(after.columns) - Len(before.columns)
            IN  /\ IsPrefix(before.columns, after.columns)
                /\ Len(after.items) >= Len(before.items)
                /\ \A i \in 1..Len(before.items) :
                       after.items[i] = before.items[i] \o Blanks(added)
                /\ \A i \in (Len(before.items) + 1)..Len(after.items) :
                       \E r \in 1..Len(op[p].rows) :
                           after.items[i] = Against(after.columns, op[p].rows[r])

\* the scenario of the design: {a:1,b:2}, then {a:3,c:4}
C8_Witness ==
    /\ AppendCompleted(Writer)
    /\ Load(pre[Writer]) = [columns |-> <<"a", "b">>, items |-> << <<"1", "2">> >>]
    /\ Load(file) = [columns |-> <<"a", "b", "c">>,
                     items |-> << <<"1", "2", "">>, <<"3", "", "4">> >>]

(* C2. Round-trip: after a completed append, the loaded table has, for   *)
(* every incoming row, an entry with the row's value for each of its keys  *)
(* and the empty string in every other column of the header.               *)
C2_RoundTrip ==
    \A p \in Procs :
        AppendCompleted(p) =>
            LET after == Load(file)
            IN  \A r \in 1..Len(op[p].rows) :
                    /\ SeqSet(Keys(op[p].rows[r])) \subseteq SeqSet(after.columns)
                    /\ \E i \in 1..Len(after.items) :
                           after.items[i] = Against(after.columns, op[p].rows[r])

(* C4. Idempotent union: a completed append to an existing table whose     *)
(* header already holds every key of every incoming row has not opened the *)
(* file for a rewrite; the file is its old content followed by the         *)
(* incoming rows, and the header is the same.                              *)
C4_NoRewriteWithoutNewKeys ==
    \A p \in Procs :
        (/\ AppendCompleted(p)
         /\ pre[p].exists
         /\ KeySet(op[p].rows) \subseteq SeqSet(FieldNames(pre[p].lines))) =>
            /\ mode[p] # "w"
            /\ Load(file).columns = Load(pre[p]).columns
            /\ file.lines = pre[p].lines
                   \o [r \in 1..Len(op[p].rows) |->
                         Against(FieldNames(pre[p].lines), op[p].rows[r])]

\* the file as it will be when the writer of p has written all its lines
FileWhenWritten(p) ==
    IF mode[p] = "none" THEN file ELSE [file EXCEPT !.lines = @ \o pending[p]]

(* C5. Reader-observed atomicity: at every point of a call in progress a   *)
(* reader that loads the file gets the table as it was before the call or  *)
(* the table as the call leaves it.                                        *)
C5_ReaderSeesOldOrNew ==
    \A p \in Procs :
        pc[p] # "idle" /\ mode[p] # "none" =>
            Load(file) \in {Load(pre[p]), Load(FileWhenWritten(p))}

(* C6. Failure atomicity: when an open or a write of a call has failed,    *)
(* the error has left the call and the file is the old table or the fully  *)
(* written new one.                                                        *)
C6_FailureLeavesOldOrNew ==
    \A p \in Procs :
        err[p] = "OSError" =>
            /\ pc[p] = "idle"
            /\ \/ Load(file) = Load(pre[p])
               \/ mode[p] # "none" /\ pending[p] = <<>>

RECURSIVE FirstSeen(_, _, _)
\* fields, then the keys of rows[i..] that are not among them, in first-seen order
FirstSeen(fields, rows, i) ==
    IF i > Len(rows) THEN fields
    ELSE FirstSeen(UnionFields(fields, Keys(rows[i]), 1), rows, i + 1)

(* C7. Header order: after a completed multi-row append the header is the  *)
(* header the call found (none when there was no table) followed by the    *)
(* keys not yet in it, in first-seen order over the incoming rows.         *)
C7_HeaderFirstSeenOrder ==
    \A p \in Procs :
        AppendCompleted(p) /\ op[p].name = "append_many" /\ op[p].rows # <<>> =>
            Load(file).columns = FirstSeen(Load(pre[p]).columns, op[p].rows, 1)

\* a result with a summary mapping and a transactions sequence of mappings
Structured(val) ==
    /\ val.t = "map"
    /\ Has(val.items, "summary") /\ Get(val.items, "summary", JNull).t = "map"
    /\ Has(val.items, "transactions") /\ Get(val.items, "transactions", JNull).t = "list"
    /\ LET txs == Get(val.items, "transactions", JNull).items
       IN  \A i \in 1..Len(txs) : txs[i].t = "map"

\* the rows the design's flatten gives for a structured result
Flattened(val) ==
    LET summary == Get(val.items, "summary", JNull)
        txs == Get(val.items, "transactions", JNull).items
    IN  IF txs = <<>> THEN <<SetAll(<<>>, summary.items, "summary_", 1)>>
        ELSE [i \in 1..Len(txs) |-> FlatOf(summary, txs[i])]

(* C9. Structured flattening: when the model's answer is a structured      *)
(* result, the save worker ends without an exception having appended       *)
(* exactly the flattened rows: one per transaction, or the one row of the  *)
(* summary when there is no transaction.                                   *)
C9_StructuredFlattening ==
    \A p \in Procs :
        (/\ pc[p] = "idle"
         /\ op[p].src = "worker"
         /\ op[p].text.body = "json"
         /\ Structured(op[p].text.val)) =>
            /\ AppendCompleted(p)
            /\ op[p].rows = Flattened(op[p].text.val)

(* C10. Malformed model output: when no JSON object can be recovered from  *)
(* the text, the worker saves the empty mapping, the loaded table then has *)
(* one more row, all of it empty, and a removeLast that follows returns    *)
(* true and takes exactly that row away.                                   *)
C10_MalformedGivesRemovableRow ==
    \A p \in Procs :
        (/\ pc[p] = "idle"
         /\ op[p].src = "worker"
         /\ ~LoadsWhole(op[p].text)
         /\ ~LoadsBraces(op[p].text)) =>
            LET before == Load(pre[p])
                after == Load(file)
            IN  /\ AppendCompleted(p)
                /\ op[p].rows = <<RowEmpty>>
                /\ after.items = Append(before.items, Blanks(Len(after.columns)))
                /\ RemoveLastReturns(file)
                /\ Load(RemoveLastFile(file)).items = before.items

\* no call is in progress
Quiet == \A p \in Procs : pc[p] = "idle"

\* the data lines of the file as csv.DictReader takes them
DataLines(f) == IF f.lines = <<>> THEN <<>> ELSE SelectSeq(Tail(f.lines), NonBlank)

(* C14. Row width, single writer: from no file on, as long as every        *)
(* appended row had at least one key, between calls every data row of the  *)
(* file has exactly as many fields as the header, and the loaded table has *)
(* no None in it.                                                          *)
C14_RowWidth ==
    Quiet /\ ~hist.keyless =>
        /\ \A i \in 1..Len(DataLines(file)) :
               Len(DataLines(file)[i]) = Len(FieldNames(file.lines))
        /\ \A i \in 1..Len(Load(file).items) :
               \A j \in 1..Len(Load(file).columns) : Load(file).items[i][j] # NoneVal

\* rows of different key sets were appended and one was removed: two rows
\* under three columns are left
C14_Witness ==
    /\ Quiet
    /\ ~hist.keyless
    /\ hist.removed = 1
    /\ Len(Load(file).columns) = 3
    /\ Len(Load(file).items) = 2

(* C15. Row count, single writer: from no file on, as long as every        *)
(* appended row had at least one key, between calls the loaded table has   *)
(* as many rows as were appended minus the removeLast calls that returned  *)
(* true, and a completed removeLast returned false exactly when it found   *)
(* no row.                                                                 *)
C15_RowCount ==
    Quiet /\ ~hist.keyless =>
        /\ Len(Load(file).items) = hist.appended - hist.removed
        /\ \A p \in Procs :
               RemoveCompleted(p) => (~ret[p] <=> Load(pre[p]).items = <<>>)

\* one multi-row append of two rows, then one removal: one row is left
C15_Witness ==
    /\ Quiet
    /\ ~hist.keyless
    /\ nops = 2
    /\ hist.appended = 2
    /\ hist.removed = 1
    /\ RemoveCompleted(Writer)
    /\ Len(Load(file).items) = 1

(* C11. Loading a table whose file does not exist gives an empty table,    *)
(* without columns and without rows, and does not fail: in the table of    *)
(* the window and in the view tool.                                        *)
C11_MissingFileLoadsEmpty ==
    /\ ~file.exists => LoadDataTable(table, file) = EmptyTable
    /\ view.exc # "FileNotFoundError"

\* the warnings of an input error
InputWarnings == {"No Image", "No Prompt", "No Region"}

(* C12. A handler that warns of an empty prompt, of no image or of no      *)
(* region leaves the table file, the table of the window, captured_image   *)
(* and last_bbox as they were before the request.                          *)
C12_InputErrorNoChange ==
    [][nops' # nops /\ warned' \in InputWarnings =>
           /\ file' = file
           /\ table' = table
           /\ captured_image' = captured_image
           /\ last_bbox' = last_bbox]_vars

(* C13. Writers that are not coordinated are last-writer-wins: once all    *)
(* calls have finished, the file holds exactly the table that the writer   *)
(* which closed the file last computed from what it had read, and nothing  *)
(* of another writer's output beside it.                                   *)
C13_LastWriterWins ==
    Quiet /\ last.by # "none" => file.lines = last.lines

=============================================================================
